---- MODULE Spec2Model ----
(***************************************************************************)
(* Model of the microVM orchestration engine of firecracker-poc            *)
(* (src/src/runner.rs): the VM pool, run_in_vm, create_new_vm and the      *)
(* VMManager operations, in production mode (is_test_mode() = false).      *)
(*                                                                         *)
(* An instance (a VMManager value) is named by a number; the instance      *)
(* built by caller t is instance t.  Ownership of an instance is read off  *)
(* the program's own structures: the VecDeque VM_POOL, the local variable  *)
(* vm_manager of a running run_in_vm, the variable vm of a spawned         *)
(* retirement task.  An instance none of them holds, and that cleanup did  *)
(* not consume, was dropped: VMManager has no Drop implementation and the  *)
(* tokio Child is not kill_on_drop, so its process, link and files stay.   *)
(***************************************************************************)
EXTENDS Integers, Sequences, FiniteSets, TLC

\* ------------------------------------------------------------------ bounds
MaxTasks == 4
MaxFaults == 1

\* ------------------------------------------------------- program constants
VM_BOOT_TIMEOUT_SECONDS == 15
VM_POOL_SIZE == 3

Tasks == 1..MaxTasks
Insts == 1..MaxTasks
NoVm == 0
Unlocked == 0

VARIABLES
    pool,      \* VM_POOL: the VecDeque of pooled instances, front first
    pc,        \* pc[t]: where caller t's run_in_vm stands
    vm,        \* vm[t]: the instance run_in_vm t works on (vm_manager)
    res,       \* res[t]: what execute_code_via_api returned to t
    ret,       \* the latest return of run_in_vm: the caller and the Result
    active,    \* active[t]: active_interfaces snapshot of t's stale-link scan
    proc,      \* proc[i]: the hypervisor process of instance i, as the OS sees it
    handle,    \* handle[i]: self.process is Some(child)
    tap,       \* tap[i]: the TAP link tap-<id> exists
    files,     \* files[i]: which of the socket and log files exist
    calls,     \* calls[i]: control-socket requests issued, with the response of each
    steps,     \* steps[i]: the VMManager operations run on i, in order
    rpc,       \* rpc[i]: where the retirement task spawned for i stands
    faults,    \* number of environment faults injected so far
    born,      \* the instances VMManager::new has made
    cres,      \* cres[i]: the Results of the cleanup calls on i's namespace, in order
    lock,      \* the task that holds the Mutex of VM_POOL, or Unlocked
    probe,     \* wait_for_api_server on its own: its locals and its Result
    p_fails,   \* ... number of health checks that fail before one succeeds
    p_reqms,   \* ... time a failing health check takes (0 .. its timeout)
    p_logs,    \* ... the hypervisor log files read_to_string can read
    cfg,       \* configure_and_run_vm on its own: position, requests issued, Result
    c_file,    \* ... the state of fixtures/machine.json
    c_plan,    \* ... the hypervisor's reaction to each call
    n_ids,     \* VMManager::new on its own: the ids generate_vm_id returns, in order
    n_ns,      \* ... the VMManagers made from them
    h_code,    \* execute_handler on its own: payload.code
    h_run,     \* ... what run_in_vm does with the request
    h,         \* ... the handler's position and its answer
    x_reply,   \* execute_code_via_api on its own: what the guest agent answers
    x_res      \* ... the Result of the call

poolVars ==
    <<pool, pc, vm, res, ret, active, proc, handle, tap, files, calls, steps, rpc, faults,
      born, cres, lock>>
probeVars == <<probe, p_fails, p_reqms, p_logs>>
configVars == <<cfg, c_file, c_plan>>
nsVars == <<n_ids, n_ns>>
handlerVars == <<h_code, h_run, h>>
channelVars == <<x_reply, x_res>>
unitVars == <<probeVars, configVars, nsVars, handlerVars, channelVars>>
vars == <<poolVars, unitVars>>

Range(s) == {s[k] : k \in 1..Len(s)}

\* ------------------------------------------------------------ lib.rs errors
ApiCommunicationError(msg) == [kind |-> "ApiCommunicationError", msg |-> msg]
ResourceError(msg) == [kind |-> "ResourceError", msg |-> msg]
ProcessSpawnError(msg) == [kind |-> "ProcessSpawnError", msg |-> msg]
TimeoutErrorWithLogs(msg) == [kind |-> "TimeoutErrorWithLogs", msg |-> msg]

\* #[error("...: {0}")]: the text of an error, as a sequence of its parts
ErrorPrefix(kind) ==
    CASE kind = "ApiCommunicationError" -> "API communication error"
      [] kind = "TimeoutErrorWithLogs" -> "Execution timed out. Logs"
      [] kind = "ResourceError" -> "Resource management error"
      [] kind = "ProcessSpawnError" -> "Process spawning error"
      [] OTHER -> "error"

Display(e) == <<ErrorPrefix(e.kind)>> \o e.msg

\* A Result<T, ExecutionError>: val is the ExecuteResponse of an Ok(response)
NoResponse == [stdout |-> "", stderr |-> "", success |-> FALSE]
Ok == [ok |-> TRUE, kind |-> "Ok", msg |-> <<>>, val |-> NoResponse]
OkWith(r) == [ok |-> TRUE, kind |-> "Ok", msg |-> <<>>, val |-> r]
Err(e) == [ok |-> FALSE, kind |-> e.kind, msg |-> e.msg, val |-> NoResponse]
\* no Result yet: the future has not completed
Pending == [ok |-> FALSE, kind |-> "pending", msg |-> <<>>, val |-> NoResponse]

\* --------------------------------------------- control-socket protocol
\* What the hypervisor does with one request: answers with a status (the body
\* of an error answer can be read or not), breaks the connection, or never
\* answers.
Answer(status) == [kind |-> "status", status |-> status, body |-> TRUE]
AnswerNoBody(status) == [kind |-> "status", status |-> status, body |-> FALSE]
Broken == [kind |-> "transport", status |-> 0, body |-> FALSE]
Silent == [kind |-> "none", status |-> 0, body |-> FALSE]

\* StatusCode::is_success
IsSuccess(status) == status >= 200 /\ status <= 299

\* Display of a StatusCode: the number and its canonical reason
StatusText(status) ==
    CASE status = 200 -> "200 OK"
      [] status = 204 -> "204 No Content"
      [] status = 400 -> "400 Bad Request"
      [] status = 500 -> "500 Internal Server Error"
      [] OTHER -> "status"

\* send_api_request, given the hypervisor's reaction r to the request
SendApiRequestIgnoringStatus(method, path, r) ==
    IF r.kind = "none" THEN Pending
    ELSE IF r.kind = "transport"
         THEN Err(ApiCommunicationError(<<"API request failed", "connection error">>))
         ELSE Ok

send_api_request(method, path, r) ==
    IF r.kind = "none" THEN Pending
    ELSE IF r.kind = "transport"
         THEN Err(ApiCommunicationError(<<"API request failed", "connection error">>))
    ELSE IF ~IsSuccess(r.status)
         THEN IF ~r.body
              THEN Err(ApiCommunicationError(
                       <<"Failed to read error response", "body error">>))
              ELSE Err(ApiCommunicationError(
                       <<"API returned error status", StatusText(r.status), "for",
                         method, path, "Error details", "error body">>))
         ELSE Ok

\* The calls of configure_and_run_vm, in program order, each with the text its
\* map_err puts before the error
ConfigSteps ==
    << [method |-> "PUT", path |-> "/machine-config", label |-> "Machine config failed"],
       [method |-> "PUT", path |-> "/boot-source", label |-> "Boot source config failed"],
       [method |-> "PUT", path |-> "/drives/rootfs", label |-> "Rootfs config failed"],
       [method |-> "PUT", path |-> "/network-interfaces/eth0", label |-> "Network config failed"],
       [method |-> "PUT", path |-> "/actions", label |-> "VM start failed"] >>

NumConfigSteps == Len(ConfigSteps)

\* .map_err(|e| ApiCommunicationError(format!("<label>: {e}")))
WrapStepErrorBare(label, r) == Err(ApiCommunicationError(<<label>>))

WrapStepError(label, r) == Err(ApiCommunicationError(<<label>> \o Display(r)))

\* The j-th call of configure_and_run_vm, the hypervisor reacting with r: the
\* request joins the log of requests issued; the Result is that of
\* send_api_request(..).await.map_err(..), Pending while no answer comes.
ConfigCall(j, r, log) ==
    LET step == ConfigSteps[j]
        out == send_api_request(step.method, step.path, r)
    IN  [log |-> Append(log, [method |-> step.method, path |-> step.path, resp |-> r]),
         result |-> IF out.ok \/ out.kind = "pending" THEN out
                    ELSE WrapStepError(step.label, out)]

\* configure_and_run_vm from its j-th call on: each `?` returns the first
\* error; plan[j] is the hypervisor's reaction to the j-th call.
RECURSIVE ConfigureFrom(_, _, _)
ConfigureFrom(j, plan, log) ==
    IF j > NumConfigSteps THEN [log |-> log, result |-> Ok]
    ELSE LET c == ConfigCall(j, plan[j], log)
         IN  IF c.result.ok THEN ConfigureFrom(j + 1, plan, c.log) ELSE c

\* the Result of a panicking unwrap: the task ends without returning
Panic == [ok |-> FALSE, kind |-> "panic", msg |-> <<>>, val |-> NoResponse]

\* configure_and_run_vm; cfgFile is the state of fixtures/machine.json
configure_and_run_vm(cfgFile, plan) ==
    IF cfgFile = "unreadable"
    THEN [log |-> <<>>,
          result |-> Err(ResourceError(<<"Failed to read machine config", "io error">>))]
    ELSE IF cfgFile = "invalid"
    THEN [log |-> <<>>, result |-> Panic]
    ELSE ConfigureFrom(1, plan, <<>>)

\* configure_and_run_vm before its first step
ConfigStart == [pos |-> "open", j |-> 0, log |-> <<>>, result |-> Pending]

\* ------------------------------------------------------ readiness probe
INITIAL_DELAY_MS == 100
MAX_DELAY_MS == 1000
HEALTH_TIMEOUT_MS == 2000

\* attempt > VM_BOOT_TIMEOUT_SECONDS * 10 ends the loop
BootAttempts == VM_BOOT_TIMEOUT_SECONDS * 10

Min(a, b) == IF a < b THEN a ELSE b

\* delay_ms = (delay_ms * 2).min(max_delay_ms)
NextDelayUncapped(d) == d * 2

NextDelay(d) == Min(d * 2, MAX_DELAY_MS)

\* read_to_string(log).unwrap_or_else(|e| format!("Failed to read ..."))
LogTextOrNothing(fs, name) == IF name \in fs THEN "contents of " \o name ELSE ""

LogText(fs, name) ==
    IF name \in fs THEN "contents of " \o name ELSE "Failed to read " \o name \o " log"

\* the locals of wait_for_api_server before the loop
ProbeStart ==
    [attempt |-> 0, delay_ms |-> INITIAL_DELAY_MS, slept |-> 0, waited |-> 0,
     done |-> FALSE, ret |-> Pending]

\* One pass of the loop of wait_for_api_server: healthy says whether the health
\* check of this pass gets a success response, reqms is the time a failing
\* check takes, fs the instance's files (for the logs read on exhaustion).
ProbePass(s, healthy, reqms, fs) ==
    LET a == s.attempt + 1
        sl == IF a > 1 THEN s.slept + s.delay_ms ELSE s.slept
        d == IF a > 1 THEN NextDelay(s.delay_ms) ELSE s.delay_ms
        t == [s EXCEPT !.attempt = a, !.slept = sl, !.delay_ms = d]
    IN  IF a > BootAttempts
        THEN [t EXCEPT !.done = TRUE,
                       !.ret = Err(TimeoutErrorWithLogs(
                                  <<"VM API server did not become ready",
                                    LogText(fs, "stdout"), LogText(fs, "stderr")>>))]
        ELSE IF healthy
        THEN [t EXCEPT !.done = TRUE, !.ret = Ok]
        ELSE [t EXCEPT !.waited = s.waited + reqms]

\* wait_for_api_server run to its end against a guest whose first k health
\* checks fail
RECURSIVE RunProbe(_, _, _)
RunProbe(s, k, fs) ==
    IF s.done THEN s ELSE RunProbe(ProbePass(s, s.attempt + 1 > k, 0, fs), k, fs)

wait_for_api_server(k, fs) == RunProbe(ProbeStart, k, fs).ret

\* ---------------------------------------------------------- code channel
\* What the guest agent does with POST /execute
\* A serde_json::Value: null, a boolean, a number, a string, or an object with
\* some keys (fields: the function from its keys to their values)
JsonNull == [type |-> "null", str |-> "", bool |-> FALSE, fields |-> <<>>]
JsonString(s) == [type |-> "string", str |-> s, bool |-> FALSE, fields |-> <<>>]
JsonBool(b) == [type |-> "bool", str |-> "", bool |-> b, fields |-> <<>>]
JsonNumber == [type |-> "number", str |-> "", bool |-> FALSE, fields |-> <<>>]
JsonObject(fs) == [type |-> "object", str |-> "", bool |-> FALSE, fields |-> fs]

\* value[key]: Value::Null for a key the object lacks and for a non-object
JsonIndex(value, key) ==
    IF value.type = "object" /\ key \in DOMAIN value.fields THEN value.fields[key]
    ELSE JsonNull

\* An Option is the sequence of its zero or one values
unwrap_or(opt, default) == IF opt = <<>> THEN default ELSE opt[1]

as_str(value) == IF value.type = "string" THEN <<value.str>> ELSE <<>>

\* Value::as_bool
AsBoolTruthy(value) ==
    CASE value.type = "bool" -> <<value.bool>>
      [] value.type = "string" -> <<value.str # "">>
      [] OTHER -> <<>>

as_bool(value) == IF value.type = "bool" THEN <<value.bool>> ELSE <<>>

GuestJson(value) == [kind |-> "json", status |-> 200, body |-> value]
GuestReply(stdout, stderr, success) ==
    GuestJson(JsonObject([key \in {"stdout", "stderr", "success"} |->
                            CASE key = "stdout" -> JsonString(stdout)
                              [] key = "stderr" -> JsonString(stderr)
                              [] OTHER -> JsonBool(success)]))
GuestStatus(status) == [kind |-> "status", status |-> status, body |-> JsonNull]
GuestGarbage == [kind |-> "garbage", status |-> 200, body |-> JsonNull]
GuestSilent == [kind |-> "none", status |-> 0, body |-> JsonNull]

\* execute_code_via_api: a guest that does not answer within
\* VM_EXECUTE_TIMEOUT_SECONDS makes send() fail
execute_code_via_api(reply) ==
    IF reply.kind = "none"
    THEN Err(ApiCommunicationError(<<"Failed to send request", "timeout">>))
    ELSE IF ~IsSuccess(reply.status)
    THEN Err(ApiCommunicationError(
             <<"API request failed with status", StatusText(reply.status)>>))
    ELSE IF reply.kind = "garbage"
    THEN Err(ApiCommunicationError(<<"Failed to parse response", "json error">>))
    ELSE OkWith([stdout |-> unwrap_or(as_str(JsonIndex(reply.body, "stdout")), ""),
                 stderr |-> unwrap_or(as_str(JsonIndex(reply.body, "stderr")), ""),
                 success |-> unwrap_or(as_bool(JsonIndex(reply.body, "success")), FALSE)])

\* ------------------------------------------------------- create_new_vm
\* setup_networking after the stale-link scan: tap add, addr add, link up;
\* failAt is the command that fails (0: none).  tap: the instance's link exists.
setup_networking(failAt) ==
    [tap |-> failAt # 1,
     result |-> CASE failAt = 0 -> Ok
                  [] failAt = 1 -> Err(ResourceError(<<"Failed to create TAP interface">>))
                  [] failAt = 2 -> Err(ResourceError(<<"Failed to configure TAP interface">>))
                  [] OTHER -> Err(ResourceError(<<"Failed to bring up TAP interface">>))]

\* start_firecracker: create the two log files, spawn the hypervisor (which
\* creates its socket), keep the child's handle, sleep 100 ms and return Ok.
\* no_socket: the hypervisor runs but has not created its socket when the
\* sleep ends.
SpawnOutcomes == {"ok", "no_stdout_log", "no_stderr_log", "no_spawn", "no_socket"}
start_firecracker(outcome) ==
    CASE outcome = "ok" ->
            [files |-> {"stdout", "stderr", "socket"}, proc |-> "running",
             handle |-> TRUE, result |-> Ok]
      [] outcome = "no_socket" ->
            [files |-> {"stdout", "stderr"}, proc |-> "running",
             handle |-> TRUE, result |-> Ok]
      [] outcome = "no_stdout_log" ->
            [files |-> {}, proc |-> "none", handle |-> FALSE,
             result |-> Err(ResourceError(<<"cannot create stdout log">>))]
      [] outcome = "no_stderr_log" ->
            [files |-> {"stdout"}, proc |-> "none", handle |-> FALSE,
             result |-> Err(ResourceError(<<"cannot create stderr log">>))]
      [] OTHER ->
            [files |-> {"stdout", "stderr"}, proc |-> "none", handle |-> FALSE,
             result |-> Err(ProcessSpawnError(<<"Failed to start Firecracker">>))]

\* a VMManager as VMManager::new returns it, with nothing of it on the host yet
FreshVm ==
    [tap |-> FALSE, files |-> {}, proc |-> "none", handle |-> FALSE, calls |-> <<>>,
     steps |-> <<>>]

LogFiles == {"stdout", "stderr"}

\* the `?` after each await of create_new_vm: a step that did not return Ok
\* ends create_new_vm, with the step's error if it returned one
StopsNever(r) == FALSE

Stops(r) == ~r.ok

\* create_new_vm, lines 119-131: the four operations in order, each `?`
\* returning the first error.  env is what the host, the hypervisor and the
\* guest do.  vm: what exists of the instance afterwards.  A request to a
\* socket path at which nothing listens fails to connect.
create_new_vm(env) ==
    LET n == setup_networking(env.net)
        s == start_firecracker(env.spawn)
        plan == IF "socket" \in s.files THEN env.plan
                ELSE [j \in 1..NumConfigSteps |-> Broken]
        c == configure_and_run_vm(env.cfgFile, plan)
        w == wait_for_api_server(env.k, s.files \cap LogFiles)
        v1 == [FreshVm EXCEPT !.tap = n.tap, !.steps = <<"setup_networking">>]
        v2 == [v1 EXCEPT !.files = s.files, !.proc = s.proc, !.handle = s.handle,
                         !.steps = Append(@, "start_firecracker")]
        v3 == [v2 EXCEPT !.calls = c.log, !.steps = Append(@, "configure_and_run_vm")]
        v4 == [v3 EXCEPT !.steps = Append(@, "wait_for_api_server")]
    IN  IF Stops(n.result) THEN [vm |-> v1, result |-> n.result]
        ELSE IF Stops(s.result) THEN [vm |-> v2, result |-> s.result]
        ELSE IF Stops(c.result) THEN [vm |-> v3, result |-> c.result]
        ELSE [vm |-> v4, result |-> w]

\* The hypervisor's reactions to the five calls: all 200, or one call that
\* gets another reaction (the calls after it, were they made, would get 200):
\* any of the calls is refused with 400, the first one gets each of the other
\* reactions.
Deviations == {AnswerNoBody(400), Answer(204), Broken, Silent}
AllAnswer200 == [j \in 1..NumConfigSteps |-> Answer(200)]
Plans == {AllAnswer200}
         \cup {[AllAnswer200 EXCEPT ![f] = Answer(400)] : f \in 1..NumConfigSteps}
         \cup {[AllAnswer200 EXCEPT ![1] = d] : d \in Deviations}
CfgFiles == {"ok", "unreadable", "invalid"}
\* the guest's first k health checks fail
ProbeInputs == {0, 5, BootAttempts}

\* The environments of one create_new_vm: the nominal one, and those that
\* differ from it in one place.
NominalEnv == [net |-> 0, spawn |-> "ok", cfgFile |-> "ok", plan |-> AllAnswer200, k |-> 0]
Envs ==
    {NominalEnv}
    \cup {[NominalEnv EXCEPT !.net = f] : f \in 1..3}
    \cup {[NominalEnv EXCEPT !.spawn = o] : o \in SpawnOutcomes}
    \cup {[NominalEnv EXCEPT !.cfgFile = c] : c \in CfgFiles}
    \cup {[NominalEnv EXCEPT !.plan = p] : p \in Plans}
    \cup {[NominalEnv EXCEPT !.k = k] : k \in ProbeInputs}
BuildOutcomes == {<<env, create_new_vm(env)>> : env \in Envs}

\* ------------------------------------------------------------ the pool
\* pool.pop_front(): what stays in the queue
RestAfterPeek(p) == p

RestAfterPop(p) == Tail(p)

\* pool.pop_front(): the instance it returns
Back(p) == p[Len(p)]

Front(p) == Head(p)

\* pool.pop_front() is None
PoolBelowTwo(p) == Len(p) < 2

PoolIsEmpty(p) == p = <<>>

\* pool.push_back(vm_manager)
PushFront(p, v) == <<v>> \o p

PushBack(p, v) == Append(p, v)

\* pool.len() < VM_POOL_SIZE
PoolHasRoomOffByOne(p) == Len(p) <= VM_POOL_SIZE

PoolHasRoom(p) == Len(p) < VM_POOL_SIZE

\* Who holds the Mutex of VM_POOL when task t leaves a section that locked it.
\* The guard `pool` is dropped at the end of its block (lines 81, 102, 286), and
\* by drop(pool) before create_new_vm (line 78); none of the blocks awaits
\* anything but the lock itself.
LockKeptForBuild(t, section) == IF section = "checkout_build" THEN t ELSE Unlocked

LockAfter(t, section) == Unlocked

\* match result { Ok(response) => ..., Err(e) => ... }: the instance is kept
KeepsInstanceIfSuccess(r) == r.ok /\ r.val.success

KeepsInstance(r) == r.ok

\* ------------------------------------------------------- initial state
PoolInit ==
    /\ pool = <<>>
    /\ pc = [t \in Tasks |-> "idle"]
    /\ vm = [t \in Tasks |-> NoVm]
    /\ res = [t \in Tasks |-> Pending]
    /\ ret = [task |-> 0, result |-> Pending]
    /\ active = [t \in Tasks |-> {}]
    /\ proc = [i \in Insts |-> "none"]
    /\ handle = [i \in Insts |-> FALSE]
    /\ tap = [i \in Insts |-> FALSE]
    /\ files = [i \in Insts |-> {}]
    /\ calls = [i \in Insts |-> <<>>]
    /\ steps = [i \in Insts |-> <<>>]
    /\ rpc = [i \in Insts |-> "none"]
    /\ faults = 0
    /\ born = {}
    /\ cres = [i \in Insts |-> <<>>]
    /\ lock = Unlocked

ProbeIdle ==
    /\ probe = ProbeStart
    /\ p_fails = 0
    /\ p_reqms = 0
    /\ p_logs = LogFiles

ConfigIdle ==
    /\ cfg = ConfigStart
    /\ c_file = "ok"
    /\ c_plan = AllAnswer200

NamespaceIdle ==
    /\ n_ids = <<>>
    /\ n_ns = <<>>

\* execute_handler before its first step
HandlerStart == [pos |-> "validate", invoked |-> FALSE, status |-> 0, body |-> NoResponse]

HandlerIdle ==
    /\ h_code = <<>>
    /\ h_run = Pending
    /\ h = HandlerStart

ChannelIdle ==
    /\ x_reply = GuestSilent
    /\ x_res = Pending

Init == PoolInit /\ ProbeIdle /\ ConfigIdle /\ NamespaceIdle /\ HandlerIdle /\ ChannelIdle

\* The environment may leave its nominal behaviour MaxFaults times.
MayFail == faults < MaxFaults
Charge(deviates) ==
    /\ deviates => MayFail
    /\ faults' = IF deviates THEN faults + 1 ELSE faults

\* run_in_vm returns r to caller t
ReturnCleanupResult(t, r) ==
    /\ ret' = [task |-> t, result |-> Ok]
    /\ pc' = [pc EXCEPT ![t] = "done"]

Return(t, r) ==
    /\ ret' = [task |-> t, result |-> r]
    /\ pc' = [pc EXCEPT ![t] = "done"]

\* ------------------------------------------------------------ run_in_vm
\* Lines 71-81: take the pool's front instance, or start create_new_vm
\* (VMManager::new makes instance t).  Calls are numbered in the order in which
\* they start.
Checkout(t) ==
    /\ pc[t] = "idle"
    /\ t > 1 => pc[t - 1] # "idle"
    /\ lock = Unlocked
    /\ IF ~PoolIsEmpty(pool)
       THEN /\ vm' = [vm EXCEPT ![t] = Front(pool)]
            /\ pool' = RestAfterPop(pool)
            /\ pc' = [pc EXCEPT ![t] = "exec"]
            /\ born' = born
            /\ lock' = LockAfter(t, "checkout_pop")
       ELSE /\ vm' = [vm EXCEPT ![t] = t]
            /\ pool' = pool
            /\ pc' = [pc EXCEPT ![t] = "net_scan"]
            /\ born' = born \cup {t}
            /\ lock' = LockAfter(t, "checkout_build")
    /\ UNCHANGED <<res, ret, active, proc, handle, tap, files, calls, steps, rpc, faults,
                   cres, unitVars>>

\* cleanup_old_tap_interfaces, lines 280-286: the interface names of the pooled
\* instances, read under the pool's lock
ScanPool(t) ==
    /\ pc[t] = "net_scan"
    /\ lock = Unlocked
    /\ active' = [active EXCEPT ![t] = Range(pool)]
    /\ lock' = LockAfter(t, "scan")
    /\ pc' = [pc EXCEPT ![t] = "build"]
    /\ UNCHANGED <<pool, vm, res, ret, proc, handle, tap, files, calls, steps, rpc, faults,
                   born, cres, unitVars>>

\* the links cleanup_old_tap_interfaces deletes, lines 288-327: every tap- link
\* that is neither in the snapshot nor the caller's own
StaleLinks(t) == {i \in Insts : tap[i] /\ i \notin active[t] /\ i # vm[t]}

\* The rest of create_new_vm: delete the stale links, then build the instance.
\* A silent hypervisor leaves the call waiting in send_api_request (line 543);
\* an invalid fixtures/machine.json makes the unwrap of line 579 panic.
CreateNewVm(t) ==
    /\ pc[t] = "build"
    /\ \E b \in BuildOutcomes :
        LET i == vm[t]
            r == b[2]
        IN  /\ Charge(b[1] # NominalEnv)
            /\ tap' = [j \in Insts |->
                         IF j = i THEN r.vm.tap
                         ELSE IF j \in StaleLinks(t) THEN FALSE ELSE tap[j]]
            /\ files' = [files EXCEPT ![i] = r.vm.files]
            /\ proc' = [proc EXCEPT ![i] = r.vm.proc]
            /\ handle' = [handle EXCEPT ![i] = r.vm.handle]
            /\ calls' = [calls EXCEPT ![i] = r.vm.calls]
            /\ steps' = [steps EXCEPT ![i] = r.vm.steps]
            /\ CASE r.result.ok -> pc' = [pc EXCEPT ![t] = "exec"] /\ ret' = ret
                 [] r.result.kind = "pending" ->
                        pc' = [pc EXCEPT ![t] = "api_wait"] /\ ret' = ret
                 [] r.result.kind = "panic" ->
                        pc' = [pc EXCEPT ![t] = "panicked"] /\ ret' = ret
                 [] OTHER -> Return(t, r.result)
    /\ active' = [active EXCEPT ![t] = {}]
    /\ UNCHANGED <<pool, vm, res, rpc, born, cres, lock, unitVars>>

\* tokio::spawn(async move { vm.shutdown_vm(); vm.cleanup() })
SpawnRetirementSkipped(i) == rpc' = rpc

SpawnRetirement(i) == rpc' = [rpc EXCEPT ![i] = "shutdown"]

NominalReply == GuestReply("4", "", TRUE)
ExecReplies ==
    {NominalReply, GuestReply("", "Traceback", FALSE), GuestStatus(500), GuestGarbage,
     GuestSilent}

\* Lines 84-85 and 105-113: execute_code_via_api; on Err the instance goes to
\* a retirement task and the error is returned.
ExecuteCode(t) ==
    /\ pc[t] = "exec"
    /\ \E reply \in ExecReplies :
        LET r == execute_code_via_api(reply)
        IN  /\ Charge(reply # NominalReply)
            /\ res' = [res EXCEPT ![t] = r]
            /\ steps' = [steps EXCEPT ![vm[t]] = Append(@, "execute_code_via_api")]
            /\ IF KeepsInstance(r)
               THEN /\ pc' = [pc EXCEPT ![t] = "checkin"]
                    /\ UNCHANGED <<ret, rpc>>
               ELSE /\ SpawnRetirement(vm[t])
                    /\ Return(t, r)
    /\ UNCHANGED <<pool, vm, active, proc, handle, tap, files, calls, born, cres, lock,
                   unitVars>>

\* Lines 87-104: under the pool's lock, push the instance back or hand it to a
\* retirement task; return the response.
Checkin(t) ==
    /\ pc[t] = "checkin"
    /\ lock = Unlocked
    /\ lock' = LockAfter(t, "checkin")
    /\ IF PoolHasRoom(pool)
       THEN pool' = PushBack(pool, vm[t]) /\ rpc' = rpc
       ELSE pool' = pool /\ SpawnRetirement(vm[t])
    /\ Return(t, res[t])
    /\ UNCHANGED <<vm, res, active, proc, handle, tap, files, calls, steps, faults, born,
                   cres, unitVars>>

\* ------------------------------------------------------- retirement task
\* shutdown_vm: POST /shutdown (5 s timeout), then take the process handle out
\* of the VMManager and wait up to 10 s for the process to exit; the handle is
\* dropped at the end of the if-let.  obeys: the guest halts on the request.
ShutdownVm(i) ==
    /\ rpc[i] = "shutdown"
    /\ \E obeys \in BOOLEAN :
        proc' = [proc EXCEPT ![i] = IF obeys /\ @ = "running" THEN "exited" ELSE @]
    /\ handle' = [handle EXCEPT ![i] = FALSE]
    /\ steps' = [steps EXCEPT ![i] = Append(@, "shutdown_vm")]
    /\ rpc' = [rpc EXCEPT ![i] = "cleanup"]
    /\ UNCHANGED <<pool, pc, vm, res, ret, active, tap, files, calls, faults, born,
                   cres, lock, unitVars>>

\* cleanup_networking: `sudo ip link delete <tap>`, its status discarded;
\* deleted: the command removed the link
CleanupNetworkingStrict(deleted) ==
    IF deleted THEN Ok ELSE Err(ResourceError(<<"Failed to delete TAP interface">>))

cleanup_networking(deleted) == Ok

\* the files cleanup removes, in program order
CleanupFiles == <<"socket", "stdout", "stderr">>

\* The files cleanup leaves of fs: each file that exists is removed in turn, and
\* the remove_file that fails (rmFail; 0: none) ends cleanup through its `?`.
RemainingFilesSocketOnly(fs, rmFail) == fs \ {"socket"}

RemainingFiles(fs, rmFail) ==
    IF rmFail = 0 THEN {} ELSE fs \ {CleanupFiles[k] : k \in 1..(rmFail - 1)}

\* the Result of cleanup
CleanupResult(rmFail) ==
    IF rmFail = 0 THEN Ok
    ELSE Err(ResourceError(<<"Failed to remove", CleanupFiles[rmFail]>>))

\* cleanup: kill and reap the process if the VMManager still has its handle,
\* delete the link (result ignored), remove the three files; rmFail is the
\* remove_file that fails (0: none), which ends cleanup with its error.
Cleanup(i) ==
    /\ rpc[i] = "cleanup"
    /\ proc' = [proc EXCEPT ![i] = IF handle[i] /\ @ = "running" THEN "exited" ELSE @]
    /\ handle' = [handle EXCEPT ![i] = FALSE]
    /\ \E linkGone \in BOOLEAN, rmFail \in 0..Len(CleanupFiles) :
        /\ rmFail # 0 => CleanupFiles[rmFail] \in files[i]
        /\ Charge(~linkGone \/ rmFail # 0)
        /\ tap' = [tap EXCEPT ![i] = @ /\ ~linkGone]
        /\ files' = [files EXCEPT ![i] = RemainingFiles(@, rmFail)]
        /\ cres' = [cres EXCEPT ![i] = Append(@, CleanupResult(rmFail))]
    /\ steps' = [steps EXCEPT ![i] = Append(@, "cleanup")]
    /\ rpc' = [rpc EXCEPT ![i] = "done"]
    /\ UNCHANGED <<pool, pc, vm, res, ret, active, calls, born, lock, unitVars>>

TaskStep(t) ==
    \/ ScanPool(t)
    \/ CreateNewVm(t)
    \/ ExecuteCode(t)
    \/ Checkin(t)

RetireStep(i) == ShutdownVm(i) \/ Cleanup(i)

Next ==
    \/ \E t \in Tasks : Checkout(t) \/ TaskStep(t)
    \/ \E i \in Insts : RetireStep(i)

Spec == Init /\ [][Next]_vars

\* tokio runs every task that can make a step; callers need not call
FairSpec ==
    /\ Spec
    /\ \A t \in Tasks : WF_vars(TaskStep(t))
    /\ \A i \in Insts : WF_vars(RetireStep(i))

\* ------------------------------------------- wait_for_api_server alone
\* The loop of wait_for_api_server, one pass per step, for every number of
\* failing health checks, for failing checks that fail at once or time out, and
\* for every combination of the two logs being readable.
ProbeInit ==
    /\ PoolInit
    /\ ConfigIdle
    /\ NamespaceIdle
    /\ HandlerIdle
    /\ ChannelIdle
    /\ probe = ProbeStart
    /\ p_fails \in 0..BootAttempts
    /\ p_reqms \in {0, HEALTH_TIMEOUT_MS}
    /\ p_logs \in SUBSET LogFiles

ProbeStep ==
    /\ ~probe.done
    /\ probe' = ProbePass(probe, probe.attempt + 1 > p_fails, p_reqms, p_logs)
    /\ UNCHANGED <<p_fails, p_reqms, p_logs, poolVars, configVars, nsVars, handlerVars,
                   channelVars>>

ProbeSpec == ProbeInit /\ [][ProbeStep]_vars

\* ------------------------------------------ configure_and_run_vm alone
\* configure_and_run_vm, one call per step, for every combination of the
\* hypervisor's reactions to the five calls.
Reactions == {Answer(200), Answer(204), Answer(400), AnswerNoBody(400), Broken, Silent}

ConfigInit ==
    /\ PoolInit
    /\ ProbeIdle
    /\ NamespaceIdle
    /\ HandlerIdle
    /\ ChannelIdle
    /\ cfg = ConfigStart
    /\ c_file \in CfgFiles
    /\ c_plan \in [1..NumConfigSteps -> Reactions]
    /\ c_file # "ok" => c_plan = AllAnswer200

\* lines 574-579: read and parse fixtures/machine.json
ConfigOpen ==
    /\ cfg.pos = "open"
    /\ cfg' = CASE c_file = "unreadable" ->
                     [cfg EXCEPT !.pos = "returned",
                                 !.result = configure_and_run_vm(c_file, c_plan).result]
                [] c_file = "invalid" -> [cfg EXCEPT !.pos = "panicked", !.result = Panic]
                [] OTHER -> [cfg EXCEPT !.pos = "call", !.j = 1]
    /\ UNCHANGED <<c_file, c_plan, poolVars, probeVars, nsVars, handlerVars,
                   channelVars>>

\* one of the five send_api_request calls, lines 580-632
ConfigSend ==
    /\ cfg.pos = "call"
    /\ LET c == ConfigCall(cfg.j, c_plan[cfg.j], cfg.log)
       IN  cfg' = IF c.result.kind = "pending"
                  THEN [cfg EXCEPT !.pos = "waiting", !.log = c.log]
                  ELSE IF c.result.ok /\ cfg.j < NumConfigSteps
                  THEN [cfg EXCEPT !.j = @ + 1, !.log = c.log]
                  ELSE [cfg EXCEPT !.pos = "returned", !.log = c.log, !.result = c.result]
    /\ UNCHANGED <<c_file, c_plan, poolVars, probeVars, nsVars, handlerVars,
                   channelVars>>

ConfigNext == ConfigOpen \/ ConfigSend

ConfigSpec == ConfigInit /\ [][ConfigNext]_vars

\* ------------------------------------------------------- cleanup alone
\* cleanup on one namespace, for every combination of its files, link and
\* process existing, and again on what a cleanup left (a second VMManager with
\* the same paths and no process handle, as test_vm_manager_cleanup builds one).
MaxCleanups == 2

AllFiles == {"socket", "stdout", "stderr"}
\* the process and self.process of a VMManager handed to cleanup
ProcessStates ==
    {<<"none", FALSE>>, <<"running", TRUE>>, <<"running", FALSE>>, <<"exited", TRUE>>,
     <<"exited", FALSE>>}
Only(i, x, none) == [j \in Insts |-> IF j = i THEN x ELSE none]

CleanupInit ==
    /\ ProbeIdle
    /\ ConfigIdle
    /\ NamespaceIdle
    /\ HandlerIdle
    /\ ChannelIdle
    /\ pool = <<>>
    /\ pc = [t \in Tasks |-> "idle"]
    /\ vm = [t \in Tasks |-> NoVm]
    /\ res = [t \in Tasks |-> Pending]
    /\ ret = [task |-> 0, result |-> Pending]
    /\ active = [t \in Tasks |-> {}]
    /\ \E ps \in ProcessStates :
          proc = Only(1, ps[1], "none") /\ handle = Only(1, ps[2], FALSE)
    /\ \E link \in BOOLEAN : tap = Only(1, link, FALSE)
    /\ \E fs \in SUBSET AllFiles : files = Only(1, fs, {})
    /\ calls = [i \in Insts |-> <<>>]
    /\ steps = [i \in Insts |-> <<>>]
    /\ rpc = Only(1, "cleanup", "none")
    /\ faults = 0
    /\ born = {1}
    /\ cres = [i \in Insts |-> <<>>]
    /\ lock = Unlocked

\* another VMManager of the same namespace is handed to cleanup
CleanupAgain(i) ==
    /\ rpc[i] = "done"
    /\ Len(cres[i]) < MaxCleanups
    /\ rpc' = [rpc EXCEPT ![i] = "cleanup"]
    /\ UNCHANGED <<pool, pc, vm, res, ret, active, proc, handle, tap, files, calls, steps,
                   faults, born, cres, lock, unitVars>>

CleanupNext == \E i \in Insts : Cleanup(i) \/ CleanupAgain(i)

CleanupSpec == CleanupInit /\ [][CleanupNext]_vars

\* --------------------------------------------------- VMManager::new alone
\* A string is the sequence of its characters; a literal of a format string
\* that no code takes apart is kept as one element.
HexChars == <<"0", "1", "2", "3", "4", "5", "6", "7", "8", "9", "a", "b", "c", "d", "e", "f">>
DigitChars == <<"0", "1", "2", "3", "4", "5", "6", "7", "8", "9">>
IsHexDigit(c) == \E k \in 1..Len(HexChars) : HexChars[k] = c
HexDigitValue(c) == (CHOOSE k \in 1..Len(HexChars) : HexChars[k] = c) - 1

\* the digits of a hex string folded from the left
RECURSIVE HexFold(_)
HexFold(cs) ==
    IF cs = <<>> THEN 0
    ELSE (16 * HexFold(SubSeq(cs, 1, Len(cs) - 1)) + HexDigitValue(cs[Len(cs)]))

\* A u32 is kept as its two 16-bit halves: the value is hi * 2^16 + lo.
U32(hi, lo) == [hi |-> hi, lo |-> lo]

\* u32::from_str_radix(cs, 16): Err for an empty string, a character that is
\* no hex digit, or more digits than 32 bits hold
FromStrRadix16(cs) ==
    IF cs = <<>> \/ Len(cs) > 8 \/ \E k \in 1..Len(cs) : ~IsHexDigit(cs[k])
    THEN [ok |-> FALSE, val |-> U32(0, 0)]
    ELSE LET cut == IF Len(cs) > 4 THEN Len(cs) - 4 ELSE 0
         IN  [ok |-> TRUE,
              val |-> U32(HexFold(SubSeq(cs, 1, cut)), HexFold(SubSeq(cs, cut + 1, Len(cs))))]

\* format!("{n}") of an unsigned integer
RECURSIVE ToDecimal(_)
ToDecimal(n) ==
    IF n < 10 THEN <<DigitChars[n + 1]>>
    ELSE Append(ToDecimal(n \div 10), DigitChars[(n % 10) + 1])

\* str::split(sep).collect()
RECURSIVE Split(_, _)
Split(cs, sep) ==
    IF \A k \in 1..Len(cs) : cs[k] # sep THEN <<cs>>
    ELSE LET k == CHOOSE x \in 1..Len(cs) : cs[x] = sep /\ \A y \in 1..(x - 1) : cs[y] # sep
         IN  <<SubSeq(cs, 1, k - 1)>> \o Split(SubSeq(cs, k + 1, Len(cs)), sep)

\* "172.16."
Net172_16 == <<"1", "7", "2", ".", "1", "6", ".">>

\* u32::from_str_radix(..).unwrap_or(1) % 254 + 1
SubnetIdMod255(v) == (((v.hi % 255) * ((2 ^ 16) % 255) + v.lo) % 255) + 1

SubnetId(v) == (((v.hi % 254) * ((2 ^ 16) % 254) + v.lo) % 254) + 1

\* VMManager::new, given the id generate_vm_id returned
VMManagerNew(vm_id) ==
    LET prefix == SubSeq(vm_id, 1, 8)
        parsed == FromStrRadix16(prefix)
        subnet_id == SubnetId(IF parsed.ok THEN parsed.val ELSE U32(0, 1))
    IN  [vm_id |-> vm_id,
         tap_interface |-> <<"tap-">> \o prefix,
         vm_ip |-> Net172_16 \o ToDecimal(subnet_id) \o <<".", "2">>,
         socket_path |-> <<"/tmp/firecracker-">> \o vm_id \o <<".socket">>,
         stdout_log_path |-> <<"/tmp/fc-stdout-">> \o vm_id \o <<".log">>,
         stderr_log_path |-> <<"/tmp/fc-stderr-">> \o vm_id \o <<".log">>]

\* setup_networking, lines 191-195: the address `ip addr add` gives the link
TapAddress(vm_ip) == Net172_16 \o Split(vm_ip, ".")[3] \o <<".", "1", "/", "2", "4">>

\* configure_and_run_vm, lines 590-598: host_ip and the ip= boot argument
BootHostIp(vm_ip) == Net172_16 \o Split(vm_ip, ".")[3] \o <<".", "1">>
BootArgsIp(vm_ip) ==
    <<"ip=">> \o vm_ip \o <<"::">> \o BootHostIp(vm_ip) \o <<":255.255.255.0::eth0:off">>

\* The ids: version-4 UUIDs in their hyphenated lower-case form, whose first
\* eight characters are 000000xy or ffffffxy.
HexSample == {"0", "1", "d", "e", "f"}
IdHeads == {<<"0", "0", "0", "0", "0", "0">>, <<"f", "f", "f", "f", "f", "f">>}
IdTails == {<<"-0000-4000-8000-000000000000">>, <<"-0000-4000-8000-000000000001">>}
VmIds == {hd \o <<x, y>> \o tl : hd \in IdHeads, x \in HexSample, y \in HexSample, tl \in IdTails}

\* two instances are made, from any two ids
NamespaceInit ==
    /\ PoolInit
    /\ ProbeIdle
    /\ ConfigIdle
    /\ HandlerIdle
    /\ ChannelIdle
    /\ n_ids \in VmIds \X VmIds
    /\ n_ns = <<>>

\* create_new_vm, line 119: VMManager::new().await
NewVm ==
    /\ Len(n_ns) < Len(n_ids)
    /\ n_ns' = Append(n_ns, VMManagerNew(n_ids[Len(n_ns) + 1]))
    /\ UNCHANGED <<n_ids, poolVars, probeVars, configVars, handlerVars,
                   channelVars>>

NamespaceSpec == NamespaceInit /\ [][NewVm]_vars

\* ------------------------------------------------- execute_handler alone
\* payload.code is a sequence of runs, each a character repeated n times.  The
\* characters: a space and a no-break space (White_Space; 1 and 2 bytes of
\* UTF-8), a letter and an accented letter (1 and 2 bytes).
MAX_CODE_LENGTH == 10000

CodeChars == {"space", "nbsp", "x", "e_acute"}
IsWhitespace(c) == c \in {"space", "nbsp"}
Utf8Len(c) == IF c \in {"space", "x"} THEN 1 ELSE 2
RunLengths == {0, 1, 5000, 5001, MAX_CODE_LENGTH, MAX_CODE_LENGTH + 1}
CodeRuns == [ch : CodeChars, n : RunLengths]
Codes == {<<>>} \cup {<<r>> : r \in CodeRuns} \cup {<<r, q>> : r \in CodeRuns, q \in CodeRuns}

\* str::len: the length in bytes
RECURSIVE ByteLen(_)
ByteLen(code) ==
    IF code = <<>> THEN 0 ELSE Head(code).n * Utf8Len(Head(code).ch) + ByteLen(Tail(code))

\* str::trim: without its leading and trailing whitespace
RECURSIVE TrimStart(_)
TrimStart(code) ==
    IF code = <<>> THEN <<>>
    ELSE IF Head(code).n = 0 \/ IsWhitespace(Head(code).ch) THEN TrimStart(Tail(code))
    ELSE code
RECURSIVE TrimEnd(_)
TrimEnd(code) ==
    IF code = <<>> THEN <<>>
    ELSE IF code[Len(code)].n = 0 \/ IsWhitespace(code[Len(code)].ch)
         THEN TrimEnd(SubSeq(code, 1, Len(code) - 1))
    ELSE code
Trim(code) == TrimEnd(TrimStart(code))

\* str::is_empty
IsEmptyStr(code) == ByteLen(code) = 0

\* lib.rs: create_error_response
create_error_response(error_message) ==
    [stdout |-> "", stderr |-> error_message, success |-> FALSE]

\* what run_in_vm can do with a request: return the Result of a failed build
\* or of the channel call, never return, or panic
RunOutcomes ==
    {b[2].result : b \in {x \in BuildOutcomes : ~x[2].result.ok}}
    \cup {execute_code_via_api(reply) : reply \in ExecReplies}

HandlerInit ==
    /\ PoolInit
    /\ ProbeIdle
    /\ ConfigIdle
    /\ NamespaceIdle
    /\ ChannelIdle
    /\ h_code \in Codes
    /\ h_run \in RunOutcomes
    /\ h = HandlerStart

\* the answer of the handler: Ok(Json(body)) is 200, Err((status, Json(body)))
Answered(status, body) ==
    [h EXCEPT !.pos = "returned", !.status = status, !.body = body]

\* main.rs lines 17-27: the input checks
HandlerValidate ==
    /\ h.pos = "validate"
    /\ h' = IF IsEmptyStr(Trim(h_code))
            THEN Answered(400, create_error_response(<<"Empty code provided">>))
            ELSE IF ByteLen(h_code) > MAX_CODE_LENGTH
            THEN Answered(400, create_error_response(
                                   <<"Code exceeds maximum length of 10,000 characters">>))
            ELSE [h EXCEPT !.pos = "run", !.invoked = TRUE]
    /\ UNCHANGED <<h_code, h_run, poolVars, probeVars, configVars, nsVars,
                   channelVars>>

\* main.rs lines 30-43: run_in_vm(&payload.code).await and the match on it
HandlerRun ==
    /\ h.pos = "run"
    /\ h' = CASE h_run.ok -> Answered(200, h_run.val)
              [] h_run.kind = "pending" -> [h EXCEPT !.pos = "waiting"]
              [] h_run.kind = "panic" -> [h EXCEPT !.pos = "panicked"]
              [] OTHER -> Answered(500, create_error_response(
                                            <<"Execution failed">> \o Display(h_run)))
    /\ UNCHANGED <<h_code, h_run, poolVars, probeVars, configVars, nsVars,
                   channelVars>>

HandlerNext == HandlerValidate \/ HandlerRun

HandlerSpec == HandlerInit /\ [][HandlerNext]_vars

\* ------------------------------------------- execute_code_via_api alone
\* One call of execute_code_via_api, for every JSON answer whose stdout, stderr
\* and success are each missing or one of a few values of every type, for
\* answers that are no object, and for the failures of the HTTP exchange.
ResponseKeys == {"stdout", "stderr", "success"}
JsonFieldValues ==
    {JsonNull, JsonString(""), JsonString("4"), JsonString("Traceback"), JsonBool(TRUE),
     JsonBool(FALSE), JsonNumber}
JsonBodies ==
    {JsonObject(fs) : fs \in UNION {[keys -> JsonFieldValues] : keys \in SUBSET ResponseKeys}}
    \cup {JsonNull, JsonString("4"), JsonBool(TRUE), JsonNumber}
ChannelReplies ==
    {GuestJson(value) : value \in JsonBodies}
    \cup {[GuestJson(JsonNull) EXCEPT !.status = 201], GuestStatus(500), GuestStatus(404),
          GuestGarbage, GuestSilent}

ChannelInit ==
    /\ PoolInit
    /\ ProbeIdle
    /\ ConfigIdle
    /\ NamespaceIdle
    /\ HandlerIdle
    /\ x_reply \in ChannelReplies
    /\ x_res = Pending

ChannelCall ==
    /\ x_res = Pending
    /\ x_res' = execute_code_via_api(x_reply)
    /\ UNCHANGED <<x_reply, poolVars, probeVars, configVars, nsVars, handlerVars>>

ChannelSpec == ChannelInit /\ [][ChannelCall]_vars

\* ================================================================ claims
\* who has an instance
InPoolCount(i) == Cardinality({k \in 1..Len(pool) : pool[k] = i})
Running(t) == pc[t] \in {"net_scan", "build", "api_wait", "exec", "checkin"}
Holders(i) == {t \in Tasks : Running(t) /\ vm[t] = i}
Retiring(i) == rpc[i] # "none"
\* run_in_vm of caller t has just returned an error
ReturnedErr(t) == pc[t] = "done" /\ ret.task = t /\ ~ret.result.ok
Paths(log) == [k \in 1..Len(log) |-> log[k].path]
IsPrefix(a, b) == Len(a) <= Len(b) /\ \A k \in 1..Len(a) : a[k] = b[k]

\* C1: the pool never holds more than VM_POOL_SIZE instances, and a checkin
\* that finds the pool at capacity leaves the pool as it is and hands the
\* instance to a retirement task.
C1_PoolBound ==
    /\ [](Len(pool) <= VM_POOL_SIZE)
    /\ [][\A t \in Tasks :
            (pc[t] = "checkin" /\ pc'[t] = "done" /\ Len(pool) >= VM_POOL_SIZE)
                => (pool' = pool /\ rpc[vm[t]] = "none" /\ rpc'[vm[t]] = "shutdown")]_vars

\* C1 witness: the pool is full and a successful run's instance was retired
C1_Witness ==
    /\ Len(pool) = VM_POOL_SIZE
    /\ \E t \in Tasks : pc[t] = "done" /\ res[t].ok /\ Retiring(vm[t])

\* C2: an instance is in at most one place: once in the pool, held by one
\* running run_in_vm, or owned (now or in the past) by a retirement task.
C2_ExclusiveOwnership ==
    \A i \in Insts :
        InPoolCount(i) + Cardinality(Holders(i)) + (IF Retiring(i) THEN 1 ELSE 0) <= 1

\* C2 witness: a run executes on an instance it took from the pool while
\* another instance is pooled and a third is being retired
C2_Witness ==
    \E t \in Tasks, i \in Insts :
        /\ pc[t] = "exec" /\ vm[t] # t
        /\ pool # <<>>
        /\ rpc[i] \in {"shutdown", "cleanup"}

\* C3: whenever run_in_vm returns an error, cleanup of the instance involved
\* was attempted or is under way in a retirement task.
C3_CleanupOnEveryError ==
    \A t \in Tasks : ReturnedErr(t) => Retiring(vm[t])

\* C4: cleanup runs at most once per instance, and every instance made
\* reaches Terminated: retired, process not running, link and files gone.
Terminated(i) == rpc[i] = "done" /\ proc[i] # "running" /\ ~tap[i] /\ files[i] = {}
CleanupRuns(i) == Cardinality({k \in 1..Len(steps[i]) : steps[i][k] = "cleanup"})
C4_EveryInstanceTerminates ==
    /\ [](\A i \in Insts : CleanupRuns(i) <= 1)
    /\ \A i \in Insts : (i \in born) ~> Terminated(i)

\* C5: when the health check never succeeds, wait_for_api_server returns
\* TimeoutErrorWithLogs, and the sleeps and request timeouts it went through
\* add up to no more than the boot timeout plus slack (one request timeout and
\* one maximal delay).
ProbeSlackMs == HEALTH_TIMEOUT_MS + MAX_DELAY_MS
C5_TimeoutWithinBootTimeout ==
    (probe.done /\ p_fails >= BootAttempts) =>
        /\ probe.ret.kind = "TimeoutErrorWithLogs"
        /\ probe.slept + probe.waited <= VM_BOOT_TIMEOUT_SECONDS * 1000 + ProbeSlackMs

\* C6: the requests configure_and_run_vm has issued are always a prefix of
\* machine-config, boot-source, drives/rootfs, network-interfaces/eth0,
\* actions, all PUT, and every request but the latest got a 2xx response.
ConfigOrder ==
    <<"/machine-config", "/boot-source", "/drives/rootfs", "/network-interfaces/eth0",
      "/actions">>
C6_ConfigCallsInOrder ==
    /\ IsPrefix(Paths(cfg.log), ConfigOrder)
    /\ \A k \in 1..Len(cfg.log) :
        /\ cfg.log[k].method = "PUT"
        /\ k < Len(cfg.log) =>
               (cfg.log[k].resp.kind = "status" /\ cfg.log[k].resp.status \in 200..299)

\* C6 witness: the third call was refused after two accepted ones
C6_Witness ==
    /\ cfg.pos = "returned" /\ ~cfg.result.ok
    /\ Len(cfg.log) = 3 /\ cfg.log[3].resp.status = 400

\* C7: the instances one of whose configuration calls before the start
\* action got a non-2xx response
RefusedAt(i, k) ==
    /\ k <= Len(calls[i]) /\ k < NumConfigSteps
    /\ calls[i][k].resp.kind = "status"
    /\ calls[i][k].resp.status \notin 200..299
Mentions(msg, x) == x \in Range(msg)
ScheduledDelay(n) == IF n >= 5 THEN 1000 ELSE 100 * 2 ^ (n - 1)
\* the sum of its first k delays: 100 * (2^k - 1) while doubling, then 1000 each
ScheduledTotal(k) ==
    IF k <= 4 THEN 100 * (2 ^ k - 1) ELSE 100 * (2 ^ 4 - 1) + 1000 * (k - 4)
\* C8: with k failing health checks, k + 1 <= 150, wait_for_api_server returns
\* Ok, on attempt k + 1 and not before, having slept the first k delays of the
\* schedule; for k = 5 that is attempt 6 after 2500 ms.  On every attempt the
\* time slept so far and the next delay are those of the schedule.
C8_BackoffSchedule ==
    /\ probe.done =>
        /\ probe.ret.ok <=> p_fails + 1 <= BootAttempts
        /\ probe.ret.ok =>
            /\ probe.attempt = p_fails + 1
            /\ probe.slept = ScheduledTotal(p_fails)
        /\ (probe.ret.ok /\ p_fails = 5) => (probe.attempt = 6 /\ probe.slept = 2500)
    /\ probe.attempt <= p_fails => ~probe.done
    /\ probe.attempt >= 1 =>
        /\ probe.delay_ms = ScheduledDelay(probe.attempt)
        /\ probe.slept = ScheduledTotal(probe.attempt - 1)

\* C8 witness: five failures, success on the sixth attempt after 2500 ms
C8_Witness ==
    probe.done /\ probe.ret.ok /\ p_fails = 5 /\ probe.attempt = 6 /\ probe.slept = 2500

\* C9: once the retirement of an instance is complete its hypervisor process
\* is not running.
C9_RetiredProcessNotRunning ==
    \A i \in Insts : rpc[i] = "done" => proc[i] # "running"

\* C10: a run_in_vm or a retirement task that has started and not ended can
\* always make its next step: no wait lasts forever.
C10_EveryWaitEnds ==
    /\ \A t \in Tasks : Running(t) => ENABLED TaskStep(t)
    /\ \A i \in Insts : rpc[i] \in {"shutdown", "cleanup"} => ENABLED RetireStep(i)

\* C11: a step of the stale-link scan deletes a link only if, at that moment,
\* the link belongs neither to an instance in the pool nor to the instance
\* being created.
C11_ScanDeletesOnlyUnreferenced ==
    [][\A t \in Tasks, j \in Insts :
         (pc[t] = "build" /\ pc'[t] # "build" /\ tap[j] /\ ~tap'[j])
             => (j \notin Range(pool) /\ j # vm[t])]_vars

\* C12: an instance whose start_firecracker has run and whose socket has not
\* appeared has had its process killed and its run_in_vm ended with a startup
\* error; no configuration call is issued while the socket does not exist.
SocketMissing(i) ==
    /\ "start_firecracker" \in Range(steps[i])
    /\ "cleanup" \notin Range(steps[i])
    /\ LogFiles \subseteq files[i]
    /\ "socket" \notin files[i]
C12_SocketWaitBounded ==
    \A i \in Insts :
        SocketMissing(i) =>
            /\ proc[i] # "running"
            /\ calls[i] = <<>>
            /\ ReturnedErr(i) => ret.result.kind = "ProcessSpawnError"

\* the channel call of caller t failed
ChannelFailed(t) == ~res[t].ok /\ res[t].kind # "pending"
\* the channel calls made on instance i, and the callers that made one
ExecCalls(i) == Cardinality({k \in 1..Len(steps[i]) : steps[i][k] = "execute_code_via_api"})
Users(i) == {t \in Tasks : vm[t] = i /\ res[t] # Pending}
\* the operations run on i since its latest channel call
RECURSIVE SinceLastExec(_)
SinceLastExec(sq) ==
    IF sq = <<>> \/ sq[Len(sq)] = "execute_code_via_api" THEN <<>>
    ELSE Append(SinceLastExec(SubSeq(sq, 1, Len(sq) - 1)), sq[Len(sq)])

\* C13: a caller whose channel call failed has returned that error; its
\* instance went to a retirement task, is not in the pool and is held by no
\* caller; the failed call was the last call on the instance, which had one
\* call per caller that used it; every later caller works on another instance.
C13_FailedInstanceRetired ==
    \A t \in Tasks :
        ChannelFailed(t) =>
            LET i == vm[t]
            IN  /\ pc[t] = "done"
                /\ ret.task = t => (ret.result = res[t] /\ ~ret.result.ok)
                /\ Retiring(i) /\ InPoolCount(i) = 0 /\ Holders(i) = {}
                /\ ExecCalls(i) = Cardinality(Users(i))
                /\ Range(SinceLastExec(steps[i])) \subseteq {"shutdown_vm", "cleanup"}
                /\ \A t2 \in Tasks : t2 > t => vm[t2] # i

\* C13 witness: a call failed and its instance was retired; one later caller
\* runs on an instance from the pool, a different one, and another later
\* caller on an instance it built
C13_Witness ==
    \E t, t2, t3 \in Tasks :
        /\ ChannelFailed(t) /\ rpc[vm[t]] = "done"
        /\ t2 > t /\ pc[t2] = "exec" /\ vm[t2] \notin {t2, vm[t]}
        /\ t3 > t /\ pc[t3] = "exec" /\ vm[t3] = t3

\* C14: what run_in_vm returns after a channel call is what the call returned;
\* it returns before the retirement task has made a step, and no step of a
\* retirement task changes what a caller got.
C14_OutcomeUnchanged ==
    /\ [](\A t \in Tasks :
            (pc[t] = "done" /\ ret.task = t /\ res[t] # Pending) => ret.result = res[t])
    /\ [][\A t \in Tasks :
            (pc[t] # "done" /\ pc'[t] = "done" /\ res'[t] # Pending)
                => /\ ret' = [task |-> t, result |-> res'[t]]
                   /\ rpc'[vm[t]] \in {"none", "shutdown"}]_vars
    /\ [][(\E i \in Insts : rpc[i] \in {"shutdown", "cleanup"} /\ rpc'[i] # rpc[i])
            => (ret' = ret /\ pc' = pc /\ res' = res)]_vars

\* C14 witness: the caller got the guest's response, and the cleanup of its
\* instance then failed
C14_Witness ==
    \E t \in Tasks :
        /\ pc[t] = "done" /\ ret.task = t
        /\ ret.result = OkWith([stdout |-> "4", stderr |-> "", success |-> TRUE])
        /\ rpc[vm[t]] = "done"
        /\ cres[vm[t]] # <<>> /\ ~cres[vm[t]][1].ok

\* C19: the step of run_in_vm after a channel call that returned Ok: with room
\* in the pool the instance is appended and no retirement task is spawned;
\* without, the pool stays and a retirement task is spawned for the instance;
\* the response is returned in that step.
C19_Checkin ==
    [][\A t \in Tasks :
         (pc[t] = "checkin" /\ pc'[t] # "checkin")
             => /\ pc'[t] = "done"
                /\ ret' = [task |-> t, result |-> res[t]]
                /\ IF Len(pool) < VM_POOL_SIZE
                   THEN pool' = Append(pool, vm[t]) /\ rpc' = rpc
                   ELSE /\ pool' = pool
                        /\ rpc[vm[t]] = "none"
                        /\ rpc' = [rpc EXCEPT ![vm[t]] = "shutdown"]]_vars

\* C19 witness: one successful caller's instance sits behind another in the
\* pool, no retirement spawned for it; another successful caller has returned
\* while the retirement of its instance has not begun to run
C19_Witness ==
    \E t, t2 \in Tasks :
        /\ pc[t] = "done" /\ res[t].ok
        /\ Len(pool) >= 2 /\ pool[Len(pool)] = vm[t] /\ rpc[vm[t]] = "none"
        /\ pc[t2] = "done" /\ res[t2].ok /\ rpc[vm[t2]] = "shutdown"

\* C20: the first step of run_in_vm takes the pool's front instance when the
\* pool is not empty, and starts building a new instance only when it is; a
\* build that fails returns its error and leaves the pool as it was, and its
\* instance never gets into the pool.
C20_Checkout ==
    /\ [][\A t \in Tasks :
            (pc[t] = "idle" /\ pc'[t] # "idle")
                => IF pool # <<>>
                   THEN /\ vm'[t] = Head(pool) /\ pool' = Tail(pool)
                        /\ born' = born /\ pc'[t] = "exec"
                   ELSE /\ pool' = pool /\ pc'[t] = "net_scan"
                        /\ vm'[t] \notin born /\ born' = born \cup {vm'[t]}]_vars
    /\ [][\A t \in Tasks :
            (pc[t] \in {"net_scan", "build"} /\ pc'[t] = "done")
                => (pool' = pool /\ ret'.task = t /\ ~ret'.result.ok)]_vars
    /\ [](\A t \in Tasks : (pc[t] = "done" /\ res[t] = Pending) => InPoolCount(vm[t]) = 0)

\* C20 witness: a build has just failed with the pool not empty, and a caller
\* runs on an instance it took from the pool
C20_Witness ==
    \E t, t2 \in Tasks :
        /\ ReturnedErr(t) /\ res[t] = Pending /\ pool # <<>>
        /\ pc[t2] = "exec" /\ vm[t2] # t2

Octet(m) == Split(m.vm_ip, ".")[3]

\* C15: two VMManagers made from different ids differ in socket path, in both
\* log paths, in interface name, in subnet octet and in guest and host IP.
C15_NamespacesDistinct ==
    \A a, b \in 1..Len(n_ns) :
        n_ns[a].vm_id # n_ns[b].vm_id =>
            /\ n_ns[a].socket_path # n_ns[b].socket_path
            /\ n_ns[a].stdout_log_path # n_ns[b].stdout_log_path
            /\ n_ns[a].stderr_log_path # n_ns[b].stderr_log_path
            /\ n_ns[a].tap_interface # n_ns[b].tap_interface
            /\ Octet(n_ns[a]) # Octet(n_ns[b])
            /\ n_ns[a].vm_ip # n_ns[b].vm_ip
            /\ BootHostIp(n_ns[a].vm_ip) # BootHostIp(n_ns[b].vm_ip)

\* the value of the first k characters of an id, read as a hex number, mod 254
RECURSIVE PrefixMod254(_, _)
PrefixMod254(id, k) ==
    IF k = 0 THEN 0 ELSE (PrefixMod254(id, k - 1) * 16 + HexDigitValue(id[k])) % 254
\* the number a decimal string stands for
RECURSIVE DecimalValue(_)
DecimalValue(cs) ==
    IF cs = <<>> THEN 0
    ELSE 10 * DecimalValue(SubSeq(cs, 1, Len(cs) - 1))
         + ((CHOOSE k \in 1..10 : DigitChars[k] = cs[Len(cs)]) - 1)

\* C16: the octet of every VMManager is (value of the first 8 hex characters
\* of its id) mod 254 + 1, in 1..254; vm_ip is 172.16.<octet>.2, and the TAP
\* address and the host IP of the boot arguments are 172.16.<octet>.1.
C16_SubnetDerivation ==
    \A a \in 1..Len(n_ns) :
        LET m == n_ns[a]
            octet == PrefixMod254(m.vm_id, 8) + 1
        IN  /\ octet \in 1..254
            /\ DecimalValue(Octet(m)) = octet
            /\ Split(m.vm_ip, ".") = <<<<"1", "7", "2">>, <<"1", "6">>, Octet(m), <<"2">>>>
            /\ Split(TapAddress(m.vm_ip), ".")
                   = <<<<"1", "7", "2">>, <<"1", "6">>, Octet(m), <<"1", "/", "2", "4">>>>
            /\ Split(BootHostIp(m.vm_ip), ".")
                   = <<<<"1", "7", "2">>, <<"1", "6">>, Octet(m), <<"1">>>>
            /\ BootArgsIp(m.vm_ip)
                   = <<"ip=">> \o m.vm_ip \o <<"::">> \o BootHostIp(m.vm_ip)
                     \o <<":255.255.255.0::eth0:off">>

\* C16 witness: the id 000000fd-.. gives octet 254, guest 172.16.254.2 and
\* TAP address 172.16.254.1/24
C16_Witness ==
    \E a \in 1..Len(n_ns) :
        /\ SubSeq(n_ns[a].vm_id, 1, 8) = <<"0", "0", "0", "0", "0", "0", "f", "d">>
        /\ n_ns[a].vm_ip = <<"1", "7", "2", ".", "1", "6", ".", "2", "5", "4", ".", "2">>
        /\ TapAddress(n_ns[a].vm_ip)
               = <<"1", "7", "2", ".", "1", "6", ".", "2", "5", "4", ".", "1", "/", "2", "4">>

\* the code is empty after trimming: it has nothing but whitespace
OnlyWhitespace(code) == \A k \in 1..Len(code) : code[k].n = 0 \/ IsWhitespace(code[k].ch)
IsSuffix(a, b) == Len(a) <= Len(b) /\ SubSeq(b, Len(b) - Len(a) + 1, Len(b)) = a

\* the answers the handler gives have the form C18 states
C18_AnswersWellFormed ==
    h.pos = "returned" =>
        IF OnlyWhitespace(h_code) \/ ByteLen(h_code) > 10000
        THEN /\ h.status = 400
             /\ h.body.stdout = "" /\ ~h.body.success /\ h.body.stderr # <<>>
             /\ ~h.invoked
        ELSE /\ h.invoked
             /\ IF h_run.ok
                THEN h.status = 200 /\ h.body = h_run.val
                ELSE /\ h.status = 500
                     /\ h.body.stdout = "" /\ ~h.body.success
                     /\ IsSuffix(Display(h_run), h.body.stderr)

\* C18: the handler answers every request, and its answers are: 400 with
\* empty stdout, success false and an explanation, run_in_vm not invoked, for
\* code that is empty after trimming or longer than 10,000 bytes; 500 with
\* empty stdout, success false and the error's text for an error of
\* run_in_vm; 200 with the run's response otherwise.
C18_HandlerAnswers ==
    /\ C18_AnswersWellFormed
    /\ h.pos \notin {"waiting", "panicked"}

\* the positions at which run_in_vm waits for network, process, control-protocol
\* or guest HTTP I/O
IOPositions == {"build", "api_wait", "exec"}

\* C21: no task holds the VM_POOL lock while it performs I/O: the lock is free
\* whenever a task stands between two of its steps, so a task that waits for
\* the lock (for its checkout, its snapshot of the pooled interface names or
\* its checkin) gets it whatever I/O the other tasks are blocked on.
C21_LockNotHeldAcrossIO ==
    /\ \A t \in Tasks : pc[t] \in IOPositions \cup {"net_scan", "checkin"} => lock # t
    /\ \A u \in Tasks :
        /\ pc[u] = "checkin" => ENABLED Checkin(u)
        /\ pc[u] = "net_scan" => ENABLED ScanPool(u)
        /\ (pc[u] = "idle" /\ (u > 1 => pc[u - 1] # "idle")) => ENABLED Checkout(u)

\* a caller waits for ever on a silent hypervisor while a second one has checked
\* its instance in and a third one has checked that instance out
C21_Witness ==
    \E t, u, w \in Tasks :
        /\ pc[t] = "api_wait"
        /\ pc[u] = "done" /\ res[u].ok
        /\ w # u /\ pc[w] = "exec" /\ vm[w] = vm[u]

\* instance j is live outside the pool: a running run_in_vm executes code on
\* it, or is still building it
BusyOrBuilding(j) ==
    /\ j \notin Range(pool)
    /\ \E u \in Tasks : vm[u] = j /\ pc[u] \in {"net_scan", "build", "exec", "checkin"}

\* C22: provisioning a new instance never deletes the TAP link of another live
\* instance that is outside the pool (one that executes code, or one that a
\* concurrent run_in_vm is still building).
C22_BuildSparesLiveLinks ==
    [][\A t \in Tasks, j \in Insts :
          (pc[t] = "build" /\ pc'[t] # "build" /\ j # vm[t] /\ BusyOrBuilding(j) /\ tap[j])
              => tap'[j]]_vars

\* the steps of an instance's construction, in the order of create_new_vm
BuildOrder ==
    <<"setup_networking", "start_firecracker", "configure_and_run_vm", "wait_for_api_server">>
\* how many construction steps were run on instance i
BuildSteps(i) == Cardinality({k \in 1..Len(steps[i]) : steps[i][k] \in Range(BuildOrder)})
\* the Results of the four steps in environment env
StepResults(env) ==
    LET s == start_firecracker(env.spawn)
        plan == IF "socket" \in s.files THEN env.plan ELSE [j \in 1..NumConfigSteps |-> Broken]
    IN  <<setup_networking(env.net).result, s.result,
          configure_and_run_vm(env.cfgFile, plan).result,
          wait_for_api_server(env.k, s.files \cap LogFiles)>>
\* the steps before the k-th returned Ok
OkBefore(rs, k) == \A j \in 1..(k - 1) : rs[j].ok

\* every create_new_vm runs the steps in order, up to and including the
\* first one that does not return Ok, and returns Ok only if all four did
C23_EveryBuildInOrder ==
    \A b \in BuildOutcomes :
        LET rs == StepResults(b[1])
            done == Len(b[2].vm.steps)
        IN  /\ done \in 1..Len(BuildOrder)
            /\ b[2].vm.steps = SubSeq(BuildOrder, 1, done)
            /\ OkBefore(rs, done)
            /\ done < Len(BuildOrder) => ~rs[done].ok
            /\ b[2].result = rs[done]

\* the constructions in which all four steps returned Ok
C23_CompleteBuilds ==
    {b \in BuildOutcomes :
        b[2].result = Ok /\ \A k \in 1..Len(BuildOrder) : StepResults(b[1])[k].ok}

\* C23: the steps of an instance's construction run in the order
\* setup_networking, start_firecracker, configure_and_run_vm,
\* wait_for_api_server, each only after the previous one returned Ok and none
\* after a failing one; execute_code_via_api is only ever invoked on an
\* instance for which all four succeeded, fresh or taken from the pool.
C23_StepsInOrder ==
    /\ C23_EveryBuildInOrder
    /\ \A i \in Insts :
        LET done == BuildSteps(i)
        IN  /\ done <= Len(BuildOrder)
            /\ SubSeq(steps[i], 1, done) = SubSeq(BuildOrder, 1, done)
            /\ (ExecCalls(i) > 0 \/ i \in Range(pool)
                  \/ \E t \in Tasks : vm[t] = i /\ pc[t] \in {"exec", "checkin"})
                 => \E b \in C23_CompleteBuilds :
                       /\ SubSeq(steps[i], 1, Len(BuildOrder)) = b[2].vm.steps
                       /\ calls[i] = b[2].vm.calls

\* one instance was built and then executed code for its builder and, taken
\* from the pool, for a second caller; the construction of another instance
\* ended at its failing second step
C23_Witness ==
    \E i, j \in Insts :
        /\ steps[i] = BuildOrder \o <<"execute_code_via_api", "execute_code_via_api">>
        /\ steps[j] = SubSeq(BuildOrder, 1, 2)
        /\ \E t \in Tasks : vm[t] = j /\ ReturnedErr(t)

\* C24: every instance in VM_POOL is Ready: it completed the whole build
\* sequence including the readiness probe, its most recent channel call
\* returned Ok, it was never handed to retirement, and its hypervisor process
\* and its TAP link exist while it sits in the pool.
C24_PooledInstancesReady ==
    \A k \in 1..Len(pool) :
        LET i == pool[k]
        IN  /\ SubSeq(steps[i], 1, Len(BuildOrder)) = BuildOrder
            /\ steps[i][Len(steps[i])] = "execute_code_via_api"
            /\ \A t \in Tasks : (vm[t] = i /\ res[t] # Pending) => res[t].ok
            /\ ~Retiring(i)
            /\ proc[i] = "running"
            /\ tap[i]

\* the probe gave up: its loop ended by the break of line 375
Exhausted == probe.done /\ probe.attempt > BootAttempts
\* what the message of the timeout error holds for a log file
Embedded(name) == probe.ret.msg[IF name = "stdout" THEN 2 ELSE 3]

\* C25: when the readiness probe is exhausted (150 failed health checks),
\* wait_for_api_server returns TimeoutErrorWithLogs with the contents of both
\* hypervisor logs in its message; a log that cannot be read is replaced
\* by a read-failure note, and changes neither the kind of the error nor
\* whether it is returned.
C25_ExhaustionEmbedsLogs ==
    /\ Exhausted <=> (probe.done /\ p_fails >= BootAttempts)
    /\ Exhausted =>
        /\ probe.waited = BootAttempts * p_reqms
        /\ ~probe.ret.ok /\ probe.ret.kind = "TimeoutErrorWithLogs"
        /\ Len(probe.ret.msg) = 3
        /\ \A name \in LogFiles :
              Embedded(name) = IF name \in p_logs THEN "contents of " \o name
                               ELSE "Failed to read " \o name \o " log"
        /\ Embedded("stdout") # Embedded("stderr")
    /\ (probe.done /\ ~Exhausted) => probe.ret = Ok

\* the probe gave up with one log readable and the other not
C25_Witness == Exhausted /\ p_logs = {"stderr"}

\* the field key of the guest's JSON answer, if the answer is an object that
\* has the key with a value of type ty
HasField(key, ty) ==
    /\ x_reply.body.type = "object"
    /\ key \in DOMAIN x_reply.body.fields
    /\ x_reply.body.fields[key].type = ty

\* a missing or wrong-typed stdout, stderr or success yields "", "" and false
C26_DefaultsForBadFields ==
    x_res.ok =>
        /\ ~HasField("stdout", "string") => x_res.val.stdout = ""
        /\ ~HasField("stderr", "string") => x_res.val.stderr = ""
        /\ ~HasField("success", "bool") => ~x_res.val.success

\* C26 as stated: the ExecuteResponse of the guest-HTTP-agent channel has
\* success = true only if its stderr is empty; a missing or wrong-typed
\* stdout, stderr or success yields "", "" and false.
C26_SuccessOnlyIfStderrEmpty ==
    /\ x_res.ok /\ x_res.val.success => x_res.val.stderr = ""
    /\ C26_DefaultsForBadFields

\* C26 amended: the ExecuteResponse has the stdout, stderr and success the
\* guest agent answered, whatever the stderr: success is true only if the
\* answer's success field is the JSON boolean true; a missing or wrong-typed
\* stdout, stderr or success yields "", "" and false; the call returns Ok
\* exactly for an answer with a 2xx status whose body is JSON.
C26_FieldsAsAnswered ==
    /\ x_res # Pending => (x_res.ok <=> (x_reply.kind = "json" /\ x_reply.status \in 200..299))
    /\ x_res.ok =>
        /\ HasField("stdout", "string") => x_res.val.stdout = x_reply.body.fields["stdout"].str
        /\ HasField("stderr", "string") => x_res.val.stderr = x_reply.body.fields["stderr"].str
        /\ HasField("success", "bool") =>
              x_res.val.success = x_reply.body.fields["success"].bool
    /\ C26_DefaultsForBadFields

\* the guest answered with a stdout of the wrong type, a stderr and success
\* true, and the call returned
C26_Witness ==
    /\ x_res.ok /\ x_res.val.success /\ x_res.val.stderr = "Traceback"
    /\ x_res.val.stdout = ""
    /\ HasField("stdout", "bool")

\* the Result of the latest cleanup of i's namespace
LastCleanup(i) == cres[i][Len(cres[i])]

\* C27: deleting the TAP link during cleanup is best-effort: cleanup_networking
\* returns Ok whether or not the delete command succeeds, and a cleanup whose
\* link deletion failed (the link is still there) goes on to the files: it
\* kills the process, removes every file up to a remove that fails itself, and
\* returns Ok or that remove's error, never an error about the link.
C27_LinkDeletionBestEffort ==
    /\ [](\A deleted \in BOOLEAN : cleanup_networking(deleted) = Ok)
    /\ [][\A i \in Insts :
            (rpc[i] = "cleanup" /\ rpc'[i] = "done" /\ tap[i] /\ tap'[i])
                => /\ Len(cres'[i]) = Len(cres[i]) + 1
                   /\ handle[i] => proc'[i] # "running"
                   /\ IF cres'[i][Len(cres'[i])].ok
                      THEN files'[i] = {}
                      ELSE /\ cres'[i][Len(cres'[i])].kind = "ResourceError"
                           /\ cres'[i][Len(cres'[i])].msg[1] = "Failed to remove"
                           /\ cres'[i][Len(cres'[i])].msg[2] \in files[i] \cap files'[i]
                           /\ "socket" \in files'[i] =>
                                 cres'[i][Len(cres'[i])].msg[2] = "socket"]_vars

\* a cleanup could not delete the link, and returned Ok with no file left
C27_Witness ==
    /\ rpc[1] = "done" /\ tap[1] /\ faults = 1
    /\ cres[1] = <<Ok>>
    /\ files[1] = {}
    /\ proc[1] = "exited"

\* C28: the checkin decision depends only on whether the channel call returned
\* Ok, not on the guest's success flag: after a call that returned Ok, with
\* success true or false, the caller goes on to its checkin with the instance
\* untouched, and the checkin of an instance whose run had success = false
\* pushes it when the pool has room and retires it when the pool is full; only
\* a call that returned an error retires the instance at once.
C28_CheckinIgnoresSuccessFlag ==
    /\ [][\A t \in Tasks :
            (pc[t] = "exec" /\ pc'[t] # "exec")
                => IF res'[t].ok
                   THEN pc'[t] = "checkin" /\ rpc' = rpc /\ pool' = pool
                   ELSE pc'[t] = "done" /\ rpc'[vm[t]] = "shutdown"]_vars
    /\ [][\A t \in Tasks :
            (pc[t] = "checkin" /\ pc'[t] # "checkin" /\ ~res[t].val.success)
                => /\ res[t].ok
                   /\ Len(pool) < VM_POOL_SIZE => (pool' = pool \o <<vm[t]>> /\ rpc' = rpc)
                   /\ Len(pool) >= VM_POOL_SIZE =>
                         (pool' = pool /\ rpc'[vm[t]] = "shutdown")]_vars

\* a caller whose code failed in the guest (success false, a stderr) has
\* returned that response, and its instance is in the pool
C28_Witness ==
    \E t \in Tasks :
        /\ pc[t] = "done" /\ res[t].ok
        /\ ~res[t].val.success /\ res[t].val.stderr = "Traceback"
        /\ vm[t] \in Range(pool) /\ rpc[vm[t]] = "none"

\* instance a is in front of instance b in the queue q
InFrontOf(q, a, b) ==
    \E k, m \in 1..Len(q) : k < m /\ q[k] = a /\ q[m] = b

\* C29: the pool is a FIFO queue: a checkout takes the instance at the front,
\* a checkin puts its instance at the back, and no step changes the order of
\* the instances that stay; so instances leave the pool in the order in which
\* they entered it, the one idle longest first.
C29_PoolIsFifo ==
    /\ [][\A t \in Tasks :
            (pc[t] = "idle" /\ pc'[t] = "exec")
                => /\ vm'[t] = pool[1]
                   /\ \A k \in 1..Len(pool') : pool'[k] = pool[k + 1]
                   /\ Len(pool') = Len(pool) - 1]_vars
    /\ [][Len(pool') > Len(pool)
            => /\ Len(pool') = Len(pool) + 1
               /\ \A k \in 1..Len(pool) : pool'[k] = pool[k]
               /\ \E t \in Tasks : pc[t] = "checkin" /\ pool'[Len(pool')] = vm[t]]_vars
    /\ [][\A a, b \in Insts :
            (InFrontOf(pool, a, b) /\ a \in Range(pool') /\ b \in Range(pool'))
                => InFrontOf(pool', a, b)]_vars

\* instances 1 and 2 were both checked in by their builders; a later caller got
\* instance 2 from the front of the pool and runs on it, instance 1 is pooled
C29_Witness ==
    \E t \in Tasks :
        /\ pc[t] = "exec" /\ vm[t] = 2 /\ t > 2
        /\ pool = <<1>>
        /\ steps[2][Len(steps[2])] = "execute_code_via_api"
        /\ pc[1] = "done" /\ pc[2] = "done"

====
